---------------------------- MODULE Spec2Model ----------------------------
(***************************************************************************)
(* lpd8_system_monitor: eight pad drivers render the brightness values     *)
(* held in eight mutex-protected cells as soft-PWM pulses over MIDI, while *)
(* one sampler thread refreshes the cells from system telemetry.           *)
(*                                                                         *)
(* Brightness values (f32 in the program) are modelled on the grid         *)
(* n/Scale, n an integer; with Scale = 8 every grid value and every        *)
(* product DURATION * n/Scale is exactly representable in f32, so the      *)
(* integer arithmetic below computes what the f32 arithmetic computes.     *)
(***************************************************************************)
EXTENDS Integers, Sequences, FiniteSets, TLC

\* ------------------------------------------------------------- bounds
\* brightness grid: the value n stands for n/Scale, Scale for 1.0
Scale == 8
\* transport failures injected per behaviour
MaxFaults == 1
\* horizon of the timed specification, in milliseconds
MaxTime == 90

\* --------------------------------------------------- program constants
DURATION == 10

\* a sampler that sleeps less than one driver cycle
REFRESH_INTERVAL_Short == DURATION \div 2

REFRESH_INTERVAL == 40
TEMPERATURE_CEILING == 90

Pads == 1..8

Slots == {"cpu_usage", "core1_usage", "core2_usage", "core3_usage",
          "core4_usage", "cpu_temp", "memory_usage", "network_usage"}

\* Pad8's worker instantiated with core3_usage, the cell of Pad7
SlotOf_Shared(p) ==
    CASE p = 1 -> "cpu_usage"
      [] p = 2 -> "cpu_temp"
      [] p = 3 -> "memory_usage"
      [] p = 4 -> "network_usage"
      [] p = 5 -> "core1_usage"
      [] p = 6 -> "core2_usage"
      [] p \in {7, 8} -> "core3_usage"

\* pad_worker!(threads, <slot>, Pad::Pad<p>): the cell each driver reads
SlotOf(p) ==
    CASE p = 1 -> "cpu_usage"
      [] p = 2 -> "cpu_temp"
      [] p = 3 -> "memory_usage"
      [] p = 4 -> "network_usage"
      [] p = 5 -> "core1_usage"
      [] p = 6 -> "core2_usage"
      [] p = 7 -> "core3_usage"
      [] p = 8 -> "core4_usage"

\* a sampler that leaves the network_usage cell (Pad4) to another writer
SamplerOrder_NoNetwork ==
    <<"core1_usage", "core2_usage", "core3_usage", "core4_usage",
      "cpu_usage", "cpu_temp", "memory_usage">>

\* the order in which one sampler cycle locks and overwrites the cells
SamplerOrder == <<"core1_usage", "core2_usage", "core3_usage", "core4_usage",
                  "cpu_usage", "cpu_temp", "memory_usage", "network_usage">>

\* threads in the order main pushes (and later joins) them: Pad1..Pad8, sampler
SamplerThread == 9
Threads == 1..9

\* the threads vector: Pad1..Pad8 in the order of the pad_worker! lines,
\* then the sampler
JoinOrder == <<1, 2, 3, 4, 5, 6, 7, 8, SamplerThread>>

\* ------------------------------------------------------- MIDI ports
\* an output port: its name, and whether the name contains "LPD8"
ThroughPort == [name |-> "Midi Through Port-0", lpd8 |-> FALSE]

Lpd8Port == [name |-> "LPD8 MIDI 1", lpd8 |-> TRUE]

\* connects to the first port there is, whatever its name
connect_AnyPort(ps) == ps # <<>>

\* connect: find the first port whose name contains "LPD8" and connect to
\* it; with no such port, expect("Could not connect to LPD8") panics.
\* TRUE when a connection is returned.
connect(ps) == \E i \in 1..Len(ps) : ps[i].lpd8

\* ------------------------------------------------------ MIDI messages
pad_to_midi_note(pad) == 35 + pad

NoteOnStatus == 144
NoteOffStatus == 128
Velocity == 127

note_on(pad) == <<NoteOnStatus, pad_to_midi_note(pad), Velocity>>

note_off(pad) == <<NoteOffStatus, pad_to_midi_note(pad), Velocity>>

\* ---------------------------------------------------------------- pwm
\* `x as u64` of a float: truncates toward zero, negative saturates to 0
AsU64(num, den) == IF num < 0 THEN 0 ELSE num \div den

\* the product rounded to the nearest millisecond instead of truncated
OnTime_Rounded(duty_cycle) == AsU64(2 * DURATION * duty_cycle + Scale, 2 * Scale)

\* the product taken without the scale of the value grid
OnTime_Unscaled(duty_cycle) == AsU64(DURATION * duty_cycle, 1)

\* on_time = (DURATION as f32 * duty_cycle) as u64
OnTime(duty_cycle) == AsU64(DURATION * duty_cycle, Scale)

\* a note-on sent at 0.0 as well
WantOn_Inclusive(duty_cycle) == duty_cycle >= 0

\* if duty_cycle > 0.0
WantOn(duty_cycle) == duty_cycle > 0

\* a note-off sent at 1.0 as well
WantOff_Inclusive(duty_cycle) == duty_cycle <= Scale

\* the note-off never sent
WantOff_Never(duty_cycle) == FALSE

\* if duty_cycle < 1.0
WantOff(duty_cycle) == duty_cycle < Scale

\* the off phase sleeping a whole window
OffTime_Whole(on_time) == DURATION

\* DURATION - on_time
OffTime(on_time) == DURATION - on_time

\* One call of pwm. `bad` is the set of status bytes whose send the
\* connection refuses (conn.send(..) returns Err, and .unwrap() panics).
\* The result records the messages sent, the sleeps taken (ms) and
\* whether the call panicked.
pwm(bad, duty_cycle, pad) ==
    LET on_time == OnTime(duty_cycle)
        wantOn == WantOn(duty_cycle)
        wantOff == WantOff(duty_cycle)
        onFails == wantOn /\ NoteOnStatus \in bad
        offFails == wantOff /\ NoteOffStatus \in bad
        sentOn == IF wantOn THEN <<note_on(pad)>> ELSE <<>>
    IN  IF onFails
        THEN [events |-> <<>>, slept |-> <<>>, panicked |-> TRUE]
        ELSE IF offFails
        THEN [events |-> sentOn, slept |-> <<on_time>>, panicked |-> TRUE]
        ELSE IF wantOff
        THEN [events |-> sentOn \o <<note_off(pad)>>,
              slept |-> <<on_time, OffTime(on_time)>>,
              panicked |-> FALSE]
        ELSE [events |-> sentOn, slept |-> <<on_time>>, panicked |-> FALSE]


\* ---------------------------------------------------------- telemetry
\* A telemetry snapshot (sysinfo::System after refresh_all):
\*   processors   per-core usage, one grid value per core, in reported order
\*   components   temperature sensors: [package_id, temperature]
\*   used_memory, total_memory
\*   networks     packets transmitted per interface
Snapshot(procs, comps, used, total, nets) ==
    [processors |-> procs, components |-> comps, used_memory |-> used,
     total_memory |-> total, networks |-> nets]

PackageSensor(t) == [package_id |-> TRUE, temperature |-> t]

OtherSensor(t) == [package_id |-> FALSE, temperature |-> t]

\* the snapshots refresh_all may produce in the main specification
Telemetry ==
    { Snapshot(<<0, Scale, 3, 5>>, <<PackageSensor(45)>>, 8, 8, <<0>>),
      Snapshot(<<Scale, 0, 5, 3>>, <<OtherSensor(135), OtherSensor(20)>>,
               3, 8, <<0, 5>>),
      Snapshot(<<0, Scale, 3, 5>>, <<>>, 3, 8, <<0>>) }

\* one snapshot per grid value d: cores, their mean and memory all at d
WideTelemetry ==
    { Snapshot(<<d, d, d, d>>, <<PackageSensor(45)>>, d, Scale, <<n>>) :
        d \in 0..Scale, n \in {0, 2} }

\* a computed value, or the panic that computing it raised
Val(v) == [panic |-> FALSE, val |-> v]

Panic == [panic |-> TRUE, val |-> 0]

RECURSIVE SumSeq(_)
SumSeq(s) == IF s = <<>> THEN 0 ELSE Head(s) + SumSeq(Tail(s))

\* the per-core readings, normalised, in the order the source reports them
get_core_usage_percent(sys) == sys.processors

\* cpu_usages[k]: indexing past the end panics
CoreUsage(sys, k) ==
    LET cpu_usages == get_core_usage_percent(sys)
    IN  IF k > Len(cpu_usages) THEN Panic ELSE Val(cpu_usages[k])

\* cpu_usages.iter().sum::<f32>() / cpu_usages.len() as f32
MeanUsage(sys) ==
    LET cpu_usages == get_core_usage_percent(sys)
    IN  Val(SumSeq(cpu_usages) \div Len(cpu_usages))

\* no clamp: the quotient as it is
Clamp_None(x, lo, hi) == x

Clamp(x, lo, hi) == IF x < lo THEN lo ELSE IF x > hi THEN hi ELSE x

\* components.iter().find(label contains "Package id")
\*     .unwrap_or(components.first().unwrap()).get_temperature() / 90.0
\* clamped to [0, 1].  The argument of unwrap_or is evaluated eagerly, so
\* first().unwrap() panics on an empty list whatever find returned.
get_cpu_temperature_percent(sys) ==
    LET components == sys.components
        pkg == {i \in 1..Len(components) : components[i].package_id}
        first == IF pkg = {} THEN 1
                 ELSE CHOOSE i \in pkg : \A j \in pkg : i <= j
    IN  IF Len(components) = 0 THEN Panic
        ELSE Val(Clamp((components[first].temperature * Scale)
                          \div TEMPERATURE_CEILING, 0, Scale))

\* used_memory as f32 / total_memory as f32
get_memory_usage_percent(sys) ==
    Val((sys.used_memory * Scale) \div sys.total_memory)

\* 1.0 if any interface transmitted a packet, else 0.0
get_network_transmitted_percent(sys) ==
    IF \E i \in 1..Len(sys.networks) : sys.networks[i] > 0
    THEN Val(Scale) ELSE Val(0)

\* the first two per-core readings stored in each other's cell
SamplerValue_CoresSwapped(s, sys) ==
    CASE s = "core1_usage" -> CoreUsage(sys, 2)
      [] s = "core2_usage" -> CoreUsage(sys, 1)
      [] s = "core3_usage" -> CoreUsage(sys, 3)
      [] s = "core4_usage" -> CoreUsage(sys, 4)
      [] s = "cpu_usage" -> MeanUsage(sys)
      [] s = "cpu_temp" -> get_cpu_temperature_percent(sys)
      [] s = "memory_usage" -> get_memory_usage_percent(sys)
      [] s = "network_usage" -> get_network_transmitted_percent(sys)

\* the cells whose value is computed from the telemetry after the cell's
\* lock is taken: `let mut x = x.lock().unwrap(); *x = <computation>;`.
\* The per-core cells are assigned an element of the vector computed
\* before any lock.
TelemetryUnderLock == {"cpu_usage", "cpu_temp", "memory_usage", "network_usage"}

\* the right-hand side of the sampler's assignment to each cell
SamplerValue(s, sys) ==
    CASE s = "core1_usage" -> CoreUsage(sys, 1)
      [] s = "core2_usage" -> CoreUsage(sys, 2)
      [] s = "core3_usage" -> CoreUsage(sys, 3)
      [] s = "core4_usage" -> CoreUsage(sys, 4)
      [] s = "cpu_usage" -> MeanUsage(sys)
      [] s = "cpu_temp" -> get_cpu_temperature_percent(sys)
      [] s = "memory_usage" -> get_memory_usage_percent(sys)
      [] s = "network_usage" -> get_network_transmitted_percent(sys)

\* -------------------------------------------------------------- state
VARIABLES
    slot,       \* the f32 in each Mutex, as its two halves [hi, lo]
    lock,       \* the thread holding each Mutex, 0 when free
    poisoned,   \* Mutexes whose holder panicked
    system,     \* the sampler's telemetry snapshot
    sampler,    \* the sampler's position: [pc, i], i indexing SamplerOrder
    drv,        \* each driver thread: running, send_panic or poison_panic
    joining,    \* the thread main is blocked joining
    exited,     \* the process has terminated
    last,       \* the most recent render cycle: what was read and what pwm did
    access,     \* the most recent access to a cell: [thread, slot, kind]
    published,  \* every value ever held by a cell after a completed write
    committed,  \* the value of the last completed write to each cell
    writers,    \* the threads that have written each cell
    telemetry,  \* the snapshots the telemetry source may report
    ports,      \* the MIDI output ports of the machine
    spawned,    \* the number of threads main has spawned
    now,        \* timed specification: the time, in ms
    wake,       \* timed specification: when each thread's sleep ends
    unread,     \* timed specification: cells written and not yet read
    writeAt,    \* timed specification: the time of each cell's last write
    beat        \* live specification: flipped by every render cycle

vars == <<slot, lock, poisoned, system, sampler, drv, joining, exited, last,
          access, published, committed, writers, telemetry, ports, spawned,
          now, wake, unread, writeAt, beat>>

\* fixed for a behaviour (telemetry, ports) or changed by main alone
startVars == <<telemetry, ports, spawned>>

progVars == <<slot, lock, poisoned, system, sampler, drv, joining, exited,
              last, access, published, committed, writers, startVars>>

timeVars == <<now, wake, unread, writeAt, beat>>

----------------------------------------------------------------------------
Free == 0

\* a cell holding v in both halves
Cell(v) == [hi |-> v, lo |-> v]

\* the value that is neither 0.0 nor any published value: a torn read
Torn == 0 - 1

\* the f32 a reader obtains from a cell's two halves
Decode(c) == IF c.hi = c.lo THEN c.hi ELSE Torn

NoCycle == [pad |-> 0, slot |-> "", duty |-> 0, latest |-> 0, pubs |-> {0},
            events |-> <<>>, slept |-> <<>>, panicked |-> FALSE]

NoAccess == [thread |-> 0, slot |-> "", kind |-> ""]

\* let cpu_usage = Arc::new(Mutex::new(0f32)); ... and the threads spawned,
\* every driver connected, the sampler about to refresh, main joining Pad1
Init ==
    /\ slot = [s \in Slots |-> Cell(0)]
    /\ lock = [s \in Slots |-> Free]
    /\ poisoned = [s \in Slots |-> FALSE]
    /\ system = Snapshot(<<>>, <<>>, 0, 0, <<>>)
    /\ sampler = [pc |-> "refresh", i |-> 1]
    /\ drv = [p \in Pads |-> "running"]
    /\ joining = 1
    /\ exited = FALSE
    /\ last = NoCycle
    /\ access = NoAccess
    /\ published = [s \in Slots |-> {0}]
    /\ committed = [s \in Slots |-> 0]
    /\ writers = [s \in Slots |-> {}]
    /\ telemetry = Telemetry
    /\ ports = <<ThroughPort, Lpd8Port>>
    /\ spawned = Len(JoinOrder)
    /\ beat = 0
    /\ now = 0
    /\ wake = [t \in Threads |-> 0]
    /\ unread = [s \in Slots |-> FALSE]
    /\ writeAt = [s \in Slots |-> 0]

----------------------------------------------------------------------------
\* ------------------------------------------------------------ sampler
SamplerSlot == SamplerOrder[sampler.i]

\* threads.push(spawn(..)): thread t runs once main has spawned it
Started(t) == t <= spawned

\* a lock that never blocks
CanLock_Always(s) == TRUE

\* Mutex::lock blocks until the mutex is free
CanLock(s) == lock[s] = Free

\* system.refresh_all(); let cpu_usages = get_core_usage_percent(..)
SamplerRefreshStep ==
    /\ ~exited
    /\ Started(SamplerThread)
    /\ sampler.pc = "refresh"
    /\ \E snap \in telemetry : system' = snap
    /\ sampler' = [pc |-> "lock", i |-> 1]
    /\ UNCHANGED <<slot, lock, poisoned, drv, joining, exited, last, access,
                   published, committed>>
    /\ UNCHANGED <<writers, startVars>>

\* the guard dropped at once: the store that follows is made unlocked
SamplerLockStep_NoGuard ==
    /\ ~exited
    /\ Started(SamplerThread)
    /\ sampler.pc = "lock"
    /\ CanLock(SamplerSlot)
    /\ sampler' = [sampler EXCEPT !.pc =
                      IF poisoned[SamplerSlot] THEN "panicked" ELSE "store"]
    /\ UNCHANGED <<slot, lock, poisoned, system, drv, joining, exited, last,
                   access, published, committed>>
    /\ UNCHANGED <<writers, startVars>>

\* let mut x = x.lock().unwrap();
SamplerLockStep ==
    /\ ~exited
    /\ Started(SamplerThread)
    /\ sampler.pc = "lock"
    /\ CanLock(SamplerSlot)
    /\ IF poisoned[SamplerSlot]
       THEN /\ sampler' = [sampler EXCEPT !.pc = "panicked"]
            /\ lock' = lock
       ELSE /\ sampler' = [sampler EXCEPT !.pc = "store"]
            /\ lock' = [lock EXCEPT ![SamplerSlot] = SamplerThread]
    /\ UNCHANGED <<slot, poisoned, system, drv, joining, exited, last, access,
                   published, committed>>
    /\ UNCHANGED <<writers, startVars>>

\* a mutex that is not poisoned by a panic of its holder
SamplerStoreStep_NoPoison ==
    /\ ~exited
    /\ Started(SamplerThread)
    /\ sampler.pc = "store"
    /\ LET s == SamplerSlot
           r == SamplerValue(s, system)
       IN  IF r.panic
           THEN /\ sampler' = [sampler EXCEPT !.pc = "panicked"]
                /\ lock' = [lock EXCEPT ![s] = Free]
                /\ UNCHANGED <<slot, access, writers, poisoned>>
           ELSE /\ sampler' = [sampler EXCEPT !.pc = "commit"]
                /\ slot' = [slot EXCEPT ![s].lo = r.val]
                /\ access' = [thread |-> SamplerThread, slot |-> s,
                              kind |-> "write"]
                /\ writers' = [writers EXCEPT ![s] = @ \cup {SamplerThread}]
                /\ UNCHANGED <<poisoned, lock>>
    /\ UNCHANGED <<system, drv, joining, exited, last, published, committed>>
    /\ UNCHANGED startVars

\* *x = <value>;  the value is computed with the lock held; a panic while
\* computing it unwinds through the guard, which poisons and frees the mutex.
\* Otherwise the store begins: the first half of the cell is written.
SamplerStoreStep ==
    /\ ~exited
    /\ Started(SamplerThread)
    /\ sampler.pc = "store"
    /\ LET s == SamplerSlot
           r == SamplerValue(s, system)
       IN  IF r.panic
           THEN /\ sampler' = [sampler EXCEPT !.pc = "panicked"]
                /\ poisoned' = [poisoned EXCEPT ![s] = TRUE]
                /\ lock' = [lock EXCEPT ![s] = Free]
                /\ UNCHANGED <<slot, access, writers>>
           ELSE /\ sampler' = [sampler EXCEPT !.pc = "commit"]
                /\ slot' = [slot EXCEPT ![s].lo = r.val]
                /\ access' = [thread |-> SamplerThread, slot |-> s,
                              kind |-> "write"]
                /\ writers' = [writers EXCEPT ![s] = @ \cup {SamplerThread}]
                /\ UNCHANGED <<poisoned, lock>>
    /\ UNCHANGED <<system, drv, joining, exited, last, published, committed>>
    /\ UNCHANGED startVars

\* the store completes: the second half of the cell is written
SamplerCommitStep ==
    /\ ~exited
    /\ Started(SamplerThread)
    /\ sampler.pc = "commit"
    /\ LET s == SamplerSlot
           v == slot[s].lo
       IN  /\ slot' = [slot EXCEPT ![s].hi = v]
           /\ committed' = [committed EXCEPT ![s] = v]
           /\ published' = [published EXCEPT ![s] = @ \cup {v}]
    /\ sampler' = [sampler EXCEPT !.pc = "unlock"]
    /\ UNCHANGED <<lock, poisoned, system, drv, joining, exited, last, access>>
    /\ UNCHANGED <<writers, startVars>>

\* a sampler whose guard outlives the block: the lock is kept
SamplerUnlockStep_Keep ==
    /\ ~exited
    /\ Started(SamplerThread)
    /\ sampler.pc = "unlock"
    /\ sampler' = IF sampler.i < Len(SamplerOrder)
                  THEN [pc |-> "lock", i |-> sampler.i + 1]
                  ELSE [pc |-> "sleep", i |-> sampler.i]
    /\ UNCHANGED <<slot, lock, poisoned, system, drv, joining, exited, last,
                   access, published, committed>>
    /\ UNCHANGED <<writers, startVars>>

\* a sampler that refreshes the telemetry again after every cell
SamplerUnlockStep_Refreshing ==
    /\ ~exited
    /\ Started(SamplerThread)
    /\ sampler.pc = "unlock"
    /\ lock' = [lock EXCEPT ![SamplerSlot] = Free]
    /\ \E snap \in telemetry : system' = snap
    /\ sampler' = IF sampler.i < Len(SamplerOrder)
                  THEN [pc |-> "lock", i |-> sampler.i + 1]
                  ELSE [pc |-> "sleep", i |-> sampler.i]
    /\ UNCHANGED <<slot, poisoned, drv, joining, exited, last, access,
                   published, committed>>
    /\ UNCHANGED <<writers, startVars>>

\* the guard goes out of scope at the closing brace
SamplerUnlockStep ==
    /\ ~exited
    /\ Started(SamplerThread)
    /\ sampler.pc = "unlock"
    /\ lock' = [lock EXCEPT ![SamplerSlot] = Free]
    /\ sampler' = IF sampler.i < Len(SamplerOrder)
                  THEN [pc |-> "lock", i |-> sampler.i + 1]
                  ELSE [pc |-> "sleep", i |-> sampler.i]
    /\ UNCHANGED <<slot, poisoned, system, drv, joining, exited, last, access,
                   published, committed>>
    /\ UNCHANGED <<writers, startVars>>

\* sleep(Duration::from_millis(REFRESH_INTERVAL)); and around the loop
SamplerSleepStep ==
    /\ ~exited
    /\ Started(SamplerThread)
    /\ sampler.pc = "sleep"
    /\ sampler' = [pc |-> "refresh", i |-> 1]
    /\ UNCHANGED <<slot, lock, poisoned, system, drv, joining, exited, last,
                   access, published, committed>>
    /\ UNCHANGED <<writers, startVars>>

\* ------------------------------------------------------------- driver
\* One iteration of a driver's loop:
\*     let duty_cycle = $src.lock().unwrap().clone();
\*     pwm(&mut connection, duty_cycle, $pad);
\* The guard is a temporary of the let statement: the lock is taken, the
\* value copied and the lock released before pwm is called.  pwm touches
\* only the driver's own connection, so the iteration is one step.
DriverRender(p, bad) ==
    /\ ~exited
    /\ drv[p] = "running"
    /\ CanLock(SlotOf(p))
    /\ LET s == SlotOf(p)
           duty_cycle == Decode(slot[s])
           r == pwm(bad, duty_cycle, p)
       IN  IF poisoned[s]
           THEN /\ drv' = [drv EXCEPT ![p] = "poison_panic"]
                /\ UNCHANGED <<last, access>>
           ELSE /\ drv' = [drv EXCEPT ![p] =
                              IF r.panicked THEN "send_panic" ELSE "running"]
                /\ last' = [pad |-> p, slot |-> s, duty |-> duty_cycle,
                            latest |-> committed[s], pubs |-> published[s],
                            events |-> r.events,
                            slept |-> r.slept, panicked |-> r.panicked]
                /\ access' = [thread |-> p, slot |-> s, kind |-> "read"]
    /\ UNCHANGED <<slot, lock, poisoned, system, sampler, joining, exited,
                   published, committed>>
    /\ UNCHANGED <<writers, startVars>>

SendPanics == {p \in Pads : drv[p] = "send_panic"}

\* the sends the transport may refuse in this iteration
Refusals == SUBSET {NoteOnStatus, NoteOffStatus}

DriverCycle(p) ==
    /\ \E bad \in Refusals :
          /\ bad # {} => Cardinality(SendPanics) < MaxFaults
          /\ DriverRender(p, bad)
    /\ UNCHANGED timeVars

\* --------------------------------------------------------------- main
ThreadPanicked(t) ==
    IF t = SamplerThread THEN sampler.pc = "panicked"
    ELSE drv[t] \in {"connect_panic", "send_panic", "poison_panic"}

\* for thread in threads { thread.join().unwrap(); }
\* No thread returns, so the loop never advances past a thread that has
\* not panicked; join of a panicked thread is Err, unwrap panics in main
\* and the process terminates.
MainJoin ==
    /\ ~exited
    /\ spawned = Len(JoinOrder)
    /\ ThreadPanicked(JoinOrder[joining])
    /\ exited' = TRUE
    /\ UNCHANGED <<slot, lock, poisoned, system, sampler, drv, joining, last,
                   access, published, committed, writers, startVars>>
    /\ UNCHANGED timeVars

\* ------------------------------------------------ main specification
SamplerRefresh == SamplerRefreshStep /\ UNCHANGED timeVars

SamplerLock == SamplerLockStep /\ UNCHANGED timeVars

SamplerStore == SamplerStoreStep /\ UNCHANGED timeVars

SamplerCommit == SamplerCommitStep /\ UNCHANGED timeVars

SamplerUnlock == SamplerUnlockStep /\ UNCHANGED timeVars

SamplerSleep == SamplerSleepStep /\ UNCHANGED timeVars

Driver == \E p \in Pads : DriverCycle(p)

Next ==
    \/ SamplerRefresh
    \/ SamplerLock
    \/ SamplerStore
    \/ SamplerCommit
    \/ SamplerUnlock
    \/ SamplerSleep
    \/ Driver
    \/ MainJoin

Spec == Init /\ [][Next]_vars

----------------------------------------------------------------------------
\* --------------------------------------- pwm over the whole value grid
\* The state at the end of a sampler cycle that published snapshot snap:
\* every cell holds its value of snap, the sampler sleeps.
AfterCycle(snap) ==
    /\ system = snap
    /\ slot = [s \in Slots |-> Cell(SamplerValue(s, snap).val)]
    /\ committed = [s \in Slots |-> SamplerValue(s, snap).val]
    /\ published = [s \in Slots |-> {0, SamplerValue(s, snap).val}]
    /\ writers = [s \in Slots |-> {SamplerThread}]
    /\ telemetry = WideTelemetry
    /\ ports = <<ThroughPort, Lpd8Port>>
    /\ spawned = Len(JoinOrder)
    /\ beat = 0
    /\ sampler = [pc |-> "sleep", i |-> Len(SamplerOrder)]
    /\ access = [thread |-> SamplerThread,
                 slot |-> SamplerOrder[Len(SamplerOrder)], kind |-> "write"]
    /\ lock = [s \in Slots |-> Free]
    /\ poisoned = [s \in Slots |-> FALSE]
    /\ drv = [p \in Pads |-> "running"]
    /\ joining = 1
    /\ exited = FALSE
    /\ last = NoCycle
    /\ now = 0
    /\ wake = [t \in Threads |-> 0]
    /\ unread = [s \in Slots |-> FALSE]
    /\ writeAt = [s \in Slots |-> 0]

PwmInit == \E snap \in WideTelemetry : AfterCycle(snap)

PwmNext == \E p \in Pads : DriverCycle(p)

\* the drivers rendering every value of the grid while the sampler sleeps
PwmSpec == PwmInit /\ [][PwmNext]_vars

----------------------------------------------------------------------------
\* ------------------------------------------------- timed specification
\* Time in milliseconds.  A thread runs when its sleep has ended; a step
\* other than a sleep takes no time, and time advances only when no live
\* thread is ready (every thread wakes punctually): the driver cycle is
\* then exactly DURATION and the sampler period exactly REFRESH_INTERVAL.
\* No send fails.
Ready(t) == wake[t] <= now

Live(t) == ~ThreadPanicked(t)

TimedRefresh ==
    Ready(SamplerThread) /\ SamplerRefreshStep /\ UNCHANGED timeVars

TimedLock == Ready(SamplerThread) /\ SamplerLockStep /\ UNCHANGED timeVars

TimedStore == Ready(SamplerThread) /\ SamplerStoreStep /\ UNCHANGED timeVars

TimedCommit ==
    /\ Ready(SamplerThread)
    /\ SamplerCommitStep
    /\ unread' = [unread EXCEPT ![SamplerSlot] = TRUE]
    /\ writeAt' = [writeAt EXCEPT ![SamplerSlot] = now]
    /\ UNCHANGED <<now, wake, beat>>

TimedUnlock ==
    Ready(SamplerThread) /\ SamplerUnlockStep /\ UNCHANGED timeVars

TimedSleep ==
    /\ Ready(SamplerThread)
    /\ SamplerSleepStep
    /\ wake' = [wake EXCEPT ![SamplerThread] = now + REFRESH_INTERVAL]
    /\ UNCHANGED <<now, unread, writeAt, beat>>

\* a render cycle starting now: the read happens now, the thread is next
\* ready when pwm's sleeps are over
TimedDriverCycle(p) ==
    /\ Ready(p)
    /\ DriverRender(p, {})
    /\ IF drv'[p] = "running"
       THEN /\ wake' = [wake EXCEPT ![p] = now + SumSeq(last'.slept)]
            /\ unread' = [unread EXCEPT ![SlotOf(p)] = FALSE]
       ELSE UNCHANGED <<wake, unread>>
    /\ UNCHANGED <<now, writeAt, beat>>

TimedDriver == \E p \in Pads : TimedDriverCycle(p)

NextWake ==
    LET W == {wake[t] : t \in {u \in Threads : Live(u)}}
    IN  CHOOSE w \in W : \A x \in W : w <= x

Tick ==
    /\ ~exited
    /\ \E t \in Threads : Live(t)
    /\ \A t \in Threads : Live(t) => ~Ready(t)
    /\ NextWake <= MaxTime
    /\ now' = NextWake
    /\ UNCHANGED progVars
    /\ UNCHANGED <<wake, unread, writeAt, beat>>

\* the sampler starts at 0; the drivers' cycles start at distinct phases
TimedInit ==
    /\ slot = [s \in Slots |-> Cell(0)]
    /\ lock = [s \in Slots |-> Free]
    /\ poisoned = [s \in Slots |-> FALSE]
    /\ system = Snapshot(<<>>, <<>>, 0, 0, <<>>)
    /\ sampler = [pc |-> "refresh", i |-> 1]
    /\ drv = [p \in Pads |-> "running"]
    /\ joining = 1
    /\ exited = FALSE
    /\ last = NoCycle
    /\ access = NoAccess
    /\ published = [s \in Slots |-> {0}]
    /\ committed = [s \in Slots |-> 0]
    /\ writers = [s \in Slots |-> {}]
    /\ telemetry = Telemetry
    /\ ports = <<ThroughPort, Lpd8Port>>
    /\ spawned = Len(JoinOrder)
    /\ beat = 0
    /\ now = 0
    /\ \E off \in 0..(DURATION - 1) :
          wake = [t \in Threads |->
                    IF t = SamplerThread THEN 0 ELSE (off + t) % DURATION]
    /\ unread = [s \in Slots |-> FALSE]
    /\ writeAt = [s \in Slots |-> 0]

TimedNext ==
    \/ TimedRefresh
    \/ TimedLock
    \/ TimedStore
    \/ TimedCommit
    \/ TimedUnlock
    \/ TimedSleep
    \/ TimedDriver
    \/ Tick

TimedSpec == TimedInit /\ [][TimedNext]_vars

----------------------------------------------------------------------------
\* ------------------------------------------------- fair specification
\* The operating system schedules every thread that can run: the sampler,
\* each driver, and main once the thread it joins has panicked.  Whether
\* a send fails is the transport's choice and is not forced.
SamplerNext ==
    \/ SamplerRefresh
    \/ SamplerLock
    \/ SamplerStore
    \/ SamplerCommit
    \/ SamplerUnlock
    \/ SamplerSleep

FairSpec ==
    /\ Init
    /\ [][Next]_vars
    /\ WF_vars(SamplerNext)
    /\ \A p \in Pads : WF_vars(DriverCycle(p))
    /\ WF_vars(MainJoin)

\* ---------------------------------------------- startup specification
\* The program from the first line of main: the machine's ports are fixed
\* for a behaviour, no thread exists yet, the telemetry source is idle.
IdleSnapshot == Snapshot(<<0, 0, 0, 0>>, <<PackageSensor(0)>>, 0, 8, <<0>>)

PortLists == {<<>>, <<ThroughPort>>, <<ThroughPort, Lpd8Port>>}

HasLpd8 == \E i \in 1..Len(ports) : ports[i].lpd8

\* threads.push(spawn(..)) of the pad_worker! lines, then of the sampler
MainSpawn ==
    /\ ~exited
    /\ spawned < Len(JoinOrder)
    /\ spawned' = spawned + 1
    /\ LET t == JoinOrder[spawned + 1]
       IN  drv' = IF t \in Pads THEN [drv EXCEPT ![t] = "spawned"] ELSE drv
    /\ UNCHANGED <<slot, lock, poisoned, system, sampler, joining, exited,
                   last, access, published, committed, writers, telemetry,
                   ports>>
    /\ UNCHANGED timeVars

\* let mut connection = connect(stringify!($src)).unwrap();
\* the first statement of a driver thread, before its loop
DriverConnect(p) ==
    /\ ~exited
    /\ drv[p] = "spawned"
    /\ drv' = [drv EXCEPT ![p] =
                  IF connect(ports) THEN "running" ELSE "connect_panic"]
    /\ UNCHANGED <<slot, lock, poisoned, system, sampler, joining, exited,
                   last, access, published, committed, writers, startVars>>
    /\ UNCHANGED timeVars

\* one loop iteration of a connected driver, every send accepted
RenderCycle(p) == DriverRender(p, {}) /\ UNCHANGED timeVars

StartInit ==
    /\ slot = [s \in Slots |-> Cell(0)]
    /\ lock = [s \in Slots |-> Free]
    /\ poisoned = [s \in Slots |-> FALSE]
    /\ system = Snapshot(<<>>, <<>>, 0, 0, <<>>)
    /\ sampler = [pc |-> "refresh", i |-> 1]
    /\ drv = [p \in Pads |-> "unspawned"]
    /\ joining = 1
    /\ exited = FALSE
    /\ last = NoCycle
    /\ access = NoAccess
    /\ published = [s \in Slots |-> {0}]
    /\ committed = [s \in Slots |-> 0]
    /\ writers = [s \in Slots |-> {}]
    /\ telemetry = {IdleSnapshot}
    /\ ports \in PortLists
    /\ spawned = 0
    /\ beat = 0
    /\ now = 0
    /\ wake = [t \in Threads |-> 0]
    /\ unread = [s \in Slots |-> FALSE]
    /\ writeAt = [s \in Slots |-> 0]

StartNext ==
    \/ MainSpawn
    \/ \E p \in Pads : DriverConnect(p)
    \/ \E p \in Pads : RenderCycle(p)
    \/ SamplerRefresh
    \/ SamplerLock
    \/ SamplerStore
    \/ SamplerCommit
    \/ SamplerUnlock
    \/ SamplerSleep
    \/ MainJoin

\* main and every spawned thread are scheduled again and again
StartSpec ==
    /\ StartInit
    /\ [][StartNext]_vars
    /\ WF_vars(MainSpawn)
    /\ WF_vars(MainJoin)
    /\ \A p \in Pads : WF_vars(DriverConnect(p))

\* ------------------------------------------------- live specification
\* The running program with no failure: the telemetry source always has
\* a temperature component and the transport accepts every send. `beat`
\* is flipped by every render cycle, so that a cycle that renders the same
\* value as the cycle before it is a step.
SteadyTelemetry ==
    { Snapshot(<<Scale, 0, 5, 3>>, <<OtherSensor(135), OtherSensor(20)>>,
               3, 8, nets) : nets \in {<<0>>, <<0, 5>>} }

LiveDriverCycle(p) ==
    /\ DriverRender(p, {})
    /\ beat' = 1 - beat
    /\ UNCHANGED <<now, wake, unread, writeAt>>

LiveInit ==
    /\ slot = [s \in Slots |-> Cell(0)]
    /\ lock = [s \in Slots |-> Free]
    /\ poisoned = [s \in Slots |-> FALSE]
    /\ system = Snapshot(<<>>, <<>>, 0, 0, <<>>)
    /\ sampler = [pc |-> "refresh", i |-> 1]
    /\ drv = [p \in Pads |-> "running"]
    /\ joining = 1
    /\ exited = FALSE
    /\ last = NoCycle
    /\ access = NoAccess
    /\ published = [s \in Slots |-> {0}]
    /\ committed = [s \in Slots |-> 0]
    /\ writers = [s \in Slots |-> {}]
    /\ telemetry = SteadyTelemetry
    /\ ports = <<ThroughPort, Lpd8Port>>
    /\ spawned = Len(JoinOrder)
    /\ beat = 0
    /\ now = 0
    /\ wake = [t \in Threads |-> 0]
    /\ unread = [s \in Slots |-> FALSE]
    /\ writeAt = [s \in Slots |-> 0]

LiveNext ==
    \/ SamplerNext
    \/ \E p \in Pads : LiveDriverCycle(p)

\* Every thread is scheduled again and again; a thread waiting for a lock
\* that is released again and again gets it (strong fairness of the
\* drivers, whose lock the sampler takes once per cycle).
LiveSpec ==
    /\ LiveInit
    /\ [][LiveNext]_vars
    /\ WF_vars(SamplerNext)
    /\ \A p \in Pads : SF_vars(LiveDriverCycle(p))

\* ------------------------------------------- sampler failure specification
\* The running program on a machine whose telemetry can make the sampler
\* panic: a snapshot with two cores only (cpu_usages[2] is out of bounds)
\* and a snapshot with no temperature component.
FailingTelemetry ==
    { Snapshot(<<Scale, 0, 5, 3>>, <<OtherSensor(135), OtherSensor(20)>>,
               3, 8, <<0, 5>>),
      Snapshot(<<4, 4>>, <<PackageSensor(45)>>, 3, 8, <<0>>),
      Snapshot(<<0, Scale, 3, 5>>, <<>>, 3, 8, <<0>>) }

PoisonInit ==
    /\ slot = [s \in Slots |-> Cell(0)]
    /\ lock = [s \in Slots |-> Free]
    /\ poisoned = [s \in Slots |-> FALSE]
    /\ system = Snapshot(<<>>, <<>>, 0, 0, <<>>)
    /\ sampler = [pc |-> "refresh", i |-> 1]
    /\ drv = [p \in Pads |-> "running"]
    /\ joining = 1
    /\ exited = FALSE
    /\ last = NoCycle
    /\ access = NoAccess
    /\ published = [s \in Slots |-> {0}]
    /\ committed = [s \in Slots |-> 0]
    /\ writers = [s \in Slots |-> {}]
    /\ telemetry = FailingTelemetry
    /\ ports = <<ThroughPort, Lpd8Port>>
    /\ spawned = Len(JoinOrder)
    /\ beat = 0
    /\ now = 0
    /\ wake = [t \in Threads |-> 0]
    /\ unread = [s \in Slots |-> FALSE]
    /\ writeAt = [s \in Slots |-> 0]

PoisonSpec == PoisonInit /\ [][Next]_vars

----------------------------------------------------------------------------
\* ------------------------------------------------------------- claims
\* `last` is the most recent render cycle of any driver: the pad, the cell
\* read, the value read (duty), the messages pwm sent and the sleeps it took.
Rendered == last.pad # 0

Statuses(evs) == {evs[i][1] : i \in 1..Len(evs)}

\* C1: in a render cycle whose value read is 0.0, pwm sends no note-on
\* (activate) message, for every driver and however many cycles have run.
C1_NoActivateAtZero ==
    (Rendered /\ last.duty = 0) => NoteOnStatus \notin Statuses(last.events)

\* a cycle at 0.0 that ran to the end: only the note-off was sent
C1_Witness ==
    /\ Rendered
    /\ last.duty = 0
    /\ last.events = <<note_off(last.pad)>>

\* C2: in a render cycle whose value read is 1.0, pwm sends no note-off
\* (deactivate) message, for every driver and however many cycles have run.
C2_NoDeactivateAtOne ==
    (Rendered /\ last.duty = Scale) =>
        NoteOffStatus \notin Statuses(last.events)

\* a cycle at 1.0 that ran to the end: only the note-on was sent
C2_Witness ==
    /\ Rendered
    /\ last.duty = Scale
    /\ last.events = <<note_on(last.pad)>>

\* C3: for every value d in [0, 1], a call of pwm that returns has slept
\* on_time and then off_time with on_time + off_time = DURATION exactly:
\* at 0.0 the on phase is 0 and the off phase the whole window, at 1.0 the
\* on phase is the whole window and there is no off phase.
C3_CycleLength ==
    (Rendered /\ ~last.panicked /\ last.duty \in 0..Scale) =>
        /\ Len(last.slept) \in {1, 2}
        /\ SumSeq(last.slept) = DURATION
        /\ last.duty = 0 => last.slept = <<0, DURATION>>
        /\ last.duty = Scale => last.slept = <<DURATION>>

\* a completed cycle strictly inside (0, 1) with both phases non-empty
C3_Witness ==
    /\ Rendered
    /\ ~last.panicked
    /\ last.duty \in 1..(Scale - 1)
    /\ Len(last.slept) = 2
    /\ last.slept[1] > 0
    /\ last.slept[2] > 0

\* C4 as stated: for every d in [0, 1] the on-time is DURATION * d rounded
\* to the nearest millisecond (a tie may go either way).
C4_OnTimeRounded ==
    (Rendered /\ last.slept # <<>> /\ last.duty \in 0..Scale) =>
        LET diff == last.slept[1] * Scale - DURATION * last.duty
        IN  2 * diff <= Scale /\ 2 * (0 - diff) <= Scale

\* C4 amended: for every d in [0, 1] the on-time is DURATION * d truncated
\* to whole milliseconds: on_time <= DURATION * d < on_time + 1.
C4_OnTimeTruncated ==
    (Rendered /\ last.slept # <<>> /\ last.duty \in 0..Scale) =>
        /\ last.slept[1] * Scale <= DURATION * last.duty
        /\ DURATION * last.duty < (last.slept[1] + 1) * Scale

\* a cycle whose product has a fraction above one half
C4_Witness ==
    /\ Rendered
    /\ last.slept # <<>>
    /\ last.duty \in 0..Scale
    /\ 2 * ((DURATION * last.duty) % Scale) > Scale

\* C5: every value a driver reads from its cell is the initial 0.0 or a
\* value a completed sampler write had put in that cell before the read;
\* it is never a partially written value.
C5_NoTornRead == Rendered => last.duty \in last.pubs

\* a driver read a value the sampler wrote, not the initial one
C5_Witness ==
    /\ Rendered
    /\ last.duty # 0
    /\ last.duty \in last.pubs

\* C6: the value a driver reads at the start of a render cycle is the value
\* of the most recently completed write to its cell (the initial 0.0 before
\* any write), also while the sampler is writing the other cells.
C6_ReadsLatest == Rendered => last.duty = last.latest

\* a read of a cell that has been overwritten with a different value
C6_Witness ==
    /\ Rendered
    /\ Cardinality(last.pubs) >= 3
    /\ last.duty = last.latest
    /\ sampler.pc \in {"store", "commit", "unlock"}

\* C7: every write of a cell is made by the sampler thread and every read
\* of a cell by the one driver whose worker was instantiated with it; each
\* cell has exactly one such driver and one place in the sampler's cycle.
C7_SingleWriterSingleReader ==
    /\ access.kind = "write" => access.thread = SamplerThread
    /\ access.kind = "read" =>
          /\ access.thread \in Pads
          /\ \A p \in Pads : SlotOf(p) = access.slot => p = access.thread
    /\ \A s \in Slots :
          /\ Cardinality({p \in Pads : SlotOf(p) = s}) = 1
          /\ Cardinality({i \in 1..Len(SamplerOrder) : SamplerOrder[i] = s}) = 1

\* Pad8's driver has read the cell the sampler wrote
C7_Witness ==
    /\ access.kind = "read"
    /\ access.thread = 8
    /\ access.slot = "core4_usage"
    /\ Cardinality(published[access.slot]) >= 2

\* the sampler has begun to overwrite cell s
Overwriting(s) == sampler.pc = "commit" /\ SamplerSlot = s

\* C8: with every thread punctual (driver cycle DURATION, sampler period
\* REFRESH_INTERVAL) and no send failing, a value written to a cell is
\* read by the cell's driver within one sampling interval, before the
\* sampler's next write to that cell replaces it.
C8_ReadWithinInterval ==
    \A s \in Slots :
        unread[s] =>
            /\ now - writeAt[s] <= REFRESH_INTERVAL
            /\ ~Overwriting(s)

\* a written value has waited most of a driver cycle and is still unread
C8_Witness ==
    \E s \in Slots :
        /\ unread[s]
        /\ now - writeAt[s] >= DURATION - 1
        /\ writeAt[s] >= REFRESH_INTERVAL

\* C9: when refresh_all reports no temperature component, the sampler does
\* not fail: it publishes a default to cpu_temp and goes on.
C9_NoComponentsDefault ==
    system.components = <<>> => sampler.pc # "panicked"

\* C10: a send that fails in any driver is fatal for the process: once a
\* driver has panicked on a failed send, the process eventually terminates.
C10_SendFailureTerminates ==
    (\E p \in Pads : drv[p] = "send_panic") ~> exited

\* C11: on a machine with no port whose name contains "LPD8" no driver
\* ever enters its render loop or sends a note-on or note-off, and the
\* process terminates: connect panics in every driver thread, and main's
\* join of the Pad1 thread returns Err.
C11_NoPortTerminates ==
    /\ [](~HasLpd8 => /\ last.events = <<>>
                      /\ \A p \in Pads : drv[p] # "running")
    /\ (~HasLpd8) ~> exited

C11_Witness ==
    /\ ports = <<ThroughPort>>
    /\ exited
    /\ drv[1] = "connect_panic"
    /\ drv[8] = "spawned"
    /\ sampler.pc = "sleep"

\* C12 (as stated): some fixed channel's cell is never written by the
\* sampler, being left to a separate clock loop that alternates 1.0 and 0.0.
C12_ClockSlot == \E s \in Slots : SamplerThread \notin writers[s]

\* C12 (amended): there is no clock loop. The spawned threads are the eight
\* drivers and the sampler, nine loops; no cell has a writer other than the
\* sampler, and a completed sampler cycle has written all eight cells, the
\* cell of Pad4 with the network activity of the snapshot.
C12_SamplerWritesEverySlot ==
    /\ Len(JoinOrder) = Cardinality(Pads) + 1
    /\ spawned <= Len(JoinOrder)
    /\ \A s \in Slots : writers[s] \subseteq {SamplerThread}
    /\ sampler.pc = "sleep" =>
          /\ \A s \in Slots : writers[s] = {SamplerThread}
          /\ committed[SlotOf(4)] =
                get_network_transmitted_percent(system).val

C12_Witness ==
    /\ sampler.pc = "sleep"
    /\ writers[SlotOf(4)] = {SamplerThread}
    /\ last.pad = 4
    /\ last.duty = Scale
    /\ last.latest = Scale

\* the place of a cell in the sampler's cycle
Index(s) == CHOOSE k \in 1..Len(SamplerOrder) : SamplerOrder[k] = s

\* the sampler has completed the k-th write of its current cycle
WrittenAt(k) ==
    /\ sampler.pc # "refresh"
    /\ \/ k < sampler.i
       \/ k = sampler.i /\ sampler.pc \in {"unlock", "sleep"}

\* the sampler has completed its write of cell s in its current cycle
WrittenThisCycle(s) == WrittenAt(Index(s))

\* C13: once a sampler cycle has written the cell rendered by Pad(4+i),
\* i = 1..4, that cell holds the i-th per-core reading of the cycle's
\* snapshot, in the order the telemetry source reported the cores; a
\* snapshot with the cores in another order fills the cells of Pad5..Pad8
\* in that other order.
C13_CoreOrder ==
    \A i \in 1..4 :
        WrittenThisCycle(SlotOf(4 + i)) =>
            /\ i <= Len(get_core_usage_percent(system))
            /\ committed[SlotOf(4 + i)] = get_core_usage_percent(system)[i]
            /\ slot[SlotOf(4 + i)] = Cell(get_core_usage_percent(system)[i])

C13_Witness ==
    /\ sampler.pc = "sleep"
    /\ get_core_usage_percent(system) = <<Scale, 0, 5, 3>>
    /\ published[SlotOf(5)] = {0, Scale}
    /\ last.pad = 5
    /\ last.duty = Scale

\* C14: every cell holds a value in [0.0, 1.0] in every reachable state,
\* half-written cells included, and so does every value a driver reads:
\* per-core usage, their mean, temperature / 90 clamped, used / total
\* memory and the binary network activity all lie in [0.0, 1.0].
C14_SlotsInUnitInterval ==
    /\ \A s \in Slots : /\ slot[s].lo \in 0..Scale
                        /\ slot[s].hi \in 0..Scale
                        /\ committed[s] \in 0..Scale
                        /\ published[s] \subseteq 0..Scale
    /\ Rendered => last.duty \in 0..Scale

C14_Witness ==
    /\ sampler.pc = "sleep"
    /\ system.components # <<>>
    /\ system.components[1].temperature > TEMPERATURE_CEILING
    /\ slot[SlotOf(2)] = Cell(Scale)
    /\ last.pad = 2
    /\ last.duty = Scale

\* C15: a sampler cycle refreshes the telemetry once, before it takes any
\* lock; every cell it has written since holds the value computed from
\* that one snapshot; and when the sampler goes to sleep it has written
\* all eight cells, each once, so all hold values of that snapshot.
C15_OneSnapshotPerCycle ==
    /\ sampler.pc = "refresh" =>
          /\ sampler.i = 1
          /\ \A s \in Slots : lock[s] = Free
    /\ \A k \in 1..Len(SamplerOrder) :
          WrittenAt(k) =>
              LET s == SamplerOrder[k]
                  r == SamplerValue(s, system)
              IN  /\ ~r.panic
                  /\ committed[s] = r.val
                  /\ slot[s] = Cell(r.val)
    /\ sampler.pc = "sleep" => sampler.i = Len(SamplerOrder)

C15_Witness ==
    /\ sampler.pc = "sleep"
    /\ system = Snapshot(<<Scale, 0, 5, 3>>,
                         <<OtherSensor(135), OtherSensor(20)>>, 3, 8, <<0, 5>>)
    /\ \A s \in Slots : slot[s] = Cell(SamplerValue(s, system).val)
    /\ published[SlotOf(3)] = {0, Scale, 3}

\* C16 (as stated): a pad is never left on. A cycle that reads 1.0 sends
\* no note-off; a cycle that reads less than 1.0 sends the note-off of its
\* pad, and no note-on when it reads 0.0.
C16_NeverStuckOn ==
    Rendered =>
        /\ last.duty = Scale => NoteOffStatus \notin Statuses(last.events)
        /\ last.duty < Scale =>
              \E i \in 1..Len(last.events) :
                  last.events[i] = note_off(last.pad)
        /\ last.duty = 0 => NoteOnStatus \notin Statuses(last.events)

\* C16 (amended): a cycle that reads 1.0 sends no note-off, a cycle that
\* reads 0.0 sends no note-on, and a cycle that reads less than 1.0 ends
\* with the note-off of its pad unless one of its sends fails; then no
\* note-off is sent, the driver thread has panicked for good and the pad
\* stays as the cycle left it.
C16_DeactivateUnlessSendFails ==
    Rendered =>
        /\ last.duty = Scale => NoteOffStatus \notin Statuses(last.events)
        /\ last.duty = 0 => NoteOnStatus \notin Statuses(last.events)
        /\ (last.duty < Scale /\ ~last.panicked) =>
              /\ last.events # <<>>
              /\ last.events[Len(last.events)] = note_off(last.pad)
        /\ last.panicked =>
              /\ NoteOffStatus \notin Statuses(last.events)
              /\ drv[last.pad] = "send_panic"

C16_Witness ==
    /\ last.panicked
    /\ last.duty \in 1..(Scale - 1)
    /\ last.events = <<note_on(last.pad)>>
    /\ drv[last.pad] = "send_panic"
    /\ ~exited

\* C17 (as stated): a lock is held for a copy or an overwrite of a ready
\* value only: the sampler never computes a value from the telemetry
\* between taking a cell's lock and storing into the cell.
C17_CopyOnly ==
    \A s \in Slots :
        (lock[s] = SamplerThread /\ sampler.pc = "store") =>
            s \notin TelemetryUnderLock

\* C17 (amended): no thread sleeps or sends while it holds a lock. A lock
\* is only ever seen held by the sampler, for the cell it is writing, from
\* its lock to the end of the block; a driver's hold begins and ends inside
\* the one statement that copies the value. The sampler computes the mean,
\* the temperature, the memory and the network value inside the hold, so
\* a panic of that computation poisons the lock of the cell being written.
C17_NoSleepOrSendUnderLock ==
    /\ \A s \in Slots :
          lock[s] # Free =>
              /\ lock[s] = SamplerThread
              /\ s = SamplerSlot
              /\ sampler.pc \in {"store", "commit", "unlock"}
    /\ sampler.pc = "panicked" => poisoned[SamplerSlot]

C17_Witness ==
    /\ sampler.pc = "store"
    /\ SamplerSlot = "cpu_temp"
    /\ lock["cpu_temp"] = SamplerThread
    /\ system.components # <<>>
    /\ last.pad = 2

\* C18: no thread holds two locks at once; with no failure and fair
\* scheduling the sampler reaches its sleep again and again, so every
\* lock it asks for on the way is granted, and each of the eight drivers
\* completes a render cycle again and again (each is again and again the
\* driver that rendered last).
C18_OneLockNoDeadlock ==
    /\ [](\A t \in Threads : Cardinality({s \in Slots : lock[s] = t}) <= 1)
    /\ []<>(sampler.pc = "sleep")
    /\ \A p \in Pads : []<>(last.pad = p)

C18_Witness ==
    /\ sampler.pc = "commit"
    /\ lock[SlotOf(8)] = SamplerThread
    /\ last.pad = 8
    /\ last.duty = 0
    /\ beat = 1
    /\ committed[SlotOf(8)] = 3
    /\ committed[SlotOf(4)] = Scale

\* C19: the u64 subtraction DURATION - on_time never underflows (a
\* negative difference here stands for the underflow). For every value read
\* in [0, 1] on_time is at most DURATION; whenever the off phase sleeps,
\* the value read is below 1.0 and the off time is DURATION - on_time >= 0;
\* at exactly 1.0 on_time is DURATION and there is no second sleep.
C19_NoUnderflow ==
    (Rendered /\ last.duty \in 0..Scale /\ last.slept # <<>>) =>
        /\ last.slept[1] <= DURATION
        /\ Len(last.slept) = 2 =>
              /\ last.duty < Scale
              /\ last.slept[2] = DURATION - last.slept[1]
              /\ last.slept[2] >= 0
        /\ last.duty = Scale => last.slept = <<DURATION>>

\* the largest value below 1.0 of the grid, both sleeps taken
C19_Witness ==
    /\ Rendered
    /\ last.duty = Scale - 1
    /\ last.slept = <<(DURATION * (Scale - 1)) \div Scale,
                      DURATION - (DURATION * (Scale - 1)) \div Scale>>
    /\ ~last.panicked

\* driver p completes a render cycle in this step
Renders(p) == last' # last /\ last'.pad = p

\* C20: when the sampler panics while it holds a cell's lock, that lock
\* and no other is poisoned and every lock is free; the driver of that
\* cell panics at its next read and never renders again; no other driver
\* ever fails because of the sampler: each can take its lock, and what it
\* renders is the last value published to its cell; and the process has
\* terminated only if the Pad1 driver, the first thread joined, failed,
\* which the sampler never causes.
C20_SamplerFailure ==
    /\ [](/\ \A s \in Slots :
                poisoned[s] <=> (sampler.pc = "panicked" /\ s = SamplerSlot)
          /\ sampler.pc = "panicked" => \A s \in Slots : lock[s] = Free
          /\ \A p \in Pads :
                /\ drv[p] = "poison_panic" => poisoned[SlotOf(p)]
                /\ (sampler.pc = "panicked" /\ ~exited /\ drv[p] = "running")
                      => CanLock(SlotOf(p))
          /\ ~poisoned[SlotOf(1)]
          /\ exited => drv[1] = "send_panic")
    /\ [][\A p \in Pads :
             /\ (poisoned[SlotOf(p)] /\ drv'[p] # drv[p]) =>
                   drv'[p] = "poison_panic"
             /\ poisoned[SlotOf(p)] => ~Renders(p)
             /\ (sampler.pc = "panicked" /\ Renders(p)) =>
                   /\ ~poisoned[SlotOf(p)]
                   /\ last'.duty = committed[SlotOf(p)]
                   /\ last'.duty \in published[SlotOf(p)]]_vars

\* the sampler died on the third core: Pad7 has failed on the poisoned
\* lock, Pad5 goes on rendering the last value of its cell
C20_Witness ==
    /\ sampler.pc = "panicked"
    /\ SamplerSlot = SlotOf(7)
    /\ drv[7] = "poison_panic"
    /\ last.pad = 5
    /\ last.duty = 4
    /\ committed[SlotOf(5)] = 4
    /\ published[SlotOf(5)] = {0, Scale, 4}
    /\ ~exited

=============================================================================
